---- MODULE Spec2Model ----
(***************************************************************************)
(* Model of Data/rre_accuracy_audit.py: the aspect normalizer, the two     *)
(* source loaders, the metric calculator and the audit driver.             *)
(*                                                                         *)
(* Text is modelled as sequences of one-character strings, so that strip,  *)
(* lower, split, join and sorted act on characters as Python's do.         *)
(* Python floats are modelled as IEEE-754 binary64 values (53-bit          *)
(* significand, round-half-to-even), with the significand kept as a        *)
(* little-endian sequence of 15-bit limbs.                                 *)
(***************************************************************************)
EXTENDS Integers, Sequences, FiniteSets, TLC

(***************************************************************************)
(* Arbitrary-precision naturals (Python int / exact significands).         *)
(***************************************************************************)
Base == 2^15

\* Python evaluates its statements in order; an operator argument is
\* evaluated only where the operator first uses it.  Then(v, body) evaluates
\* v first and body after it, as statements do.
Then(v, body) == CASE v = v -> body

Pow2(n) == 2^n

\* drop leading (most significant) zero limbs
BigNorm(a) ==
    LET nz == {i \in 1..Len(a) : a[i] # 0}
    IN  IF nz = {} THEN <<>>
        ELSE SubSeq(a, 1, CHOOSE i \in nz : \A j \in nz : j <= i)

\* a natural below 2^31 as limbs
BigFromInt(n) ==
    BigNorm(<<n % Base, (n \div Base) % Base, n \div (Base * Base)>>)

\* the value of a bignum below 2^30
BigToInt(a) ==
    (IF Len(a) >= 1 THEN a[1] ELSE 0) + (IF Len(a) >= 2 THEN a[2] * Base ELSE 0)

\* -1, 0, 1 as a < b, a = b, a > b
BigCmp(a, b) ==
    IF Len(a) < Len(b) THEN -1
    ELSE IF Len(a) > Len(b) THEN 1
    ELSE IF \E i \in 1..Len(a) :
               a[i] < b[i] /\ \A j \in (i + 1)..Len(a) : a[j] = b[j] THEN -1
    ELSE IF a = b THEN 0
    ELSE 1

Limb(a, i) == IF i >= 1 /\ i <= Len(a) THEN a[i] ELSE 0

\* resolve the carries of limb sums s[i] < 2 * Base - 1 by carry look-ahead:
\* a carry enters limb i iff some lower limb overflows and every limb in
\* between is Base - 1
BigCarry(s) ==
    LET cin(i) == IF \E j \in 1..(i - 1) :
                        /\ s[j] >= Base
                        /\ \A k \in (j + 1)..(i - 1) : s[k] = Base - 1
                  THEN 1 ELSE 0
    IN  BigNorm([i \in 1..(Len(s) + 1) |->
                    IF i <= Len(s) THEN (s[i] + cin(i)) % Base ELSE cin(i)])

BigAdd(a, b) ==
    LET n == IF Len(a) > Len(b) THEN Len(a) ELSE Len(b)
    IN  BigCarry([i \in 1..n |-> Limb(a, i) + Limb(b, i)])

\* a - b for a >= b, by borrow look-ahead
BigSub(a, b) ==
    LET bin(i) == IF \E j \in 1..(i - 1) :
                        /\ a[j] < Limb(b, j)
                        /\ \A k \in (j + 1)..(i - 1) : a[k] = Limb(b, k)
                  THEN 1 ELSE 0
    IN  BigNorm([i \in 1..Len(a) |->
                    (a[i] - Limb(b, i) - bin(i) + Base) % Base])

\* a * d for 0 <= d < Base
BigMulSmall(a, d) ==
    BigCarry([i \in 1..(Len(a) + 1) |->
                 ((Limb(a, i) * d) % Base) + ((Limb(a, i - 1) * d) \div Base)])

\* a * Base^k
BigShlLimbs(a, k) == IF a = <<>> THEN <<>> ELSE [i \in 1..k |-> 0] \o a

\* a + b, both evaluated before the addition
BigSum(a, b) == Then(a, Then(b, BigAdd(a, b)))

RECURSIVE BigMul(_, _)
BigMul(a, b) ==
    IF a = <<>> \/ b = <<>> THEN <<>>
    ELSE BigSum(BigMulSmall(a, b[1]), BigShlLimbs(BigMul(a, Tail(b)), 1))

\* a * n for a natural n below 2^31
BigMulInt(a, n) == BigMul(a, BigFromInt(n))

BitLenInt(n) == Cardinality({k \in 0..30 : Pow2(k) <= n})

BigBitLen(a) ==
    IF a = <<>> THEN 0 ELSE (Len(a) - 1) * 15 + BitLenInt(a[Len(a)])

\* a * 2^s
BigShl(a, s) == BigShlLimbs(BigMulSmall(a, Pow2(s % 15)), s \div 15)

\* floor(a / 2^s)
BigShr(a, s) ==
    LET k == s \div 15
        r == s % 15
        n == Len(a) - k
    IN  IF n <= 0 THEN <<>>
        ELSE BigNorm([i \in 1..n |->
                 (a[i + k] \div Pow2(r))
                 + (Limb(a, i + k + 1) % Pow2(r)) * Pow2(15 - r)])

\* bit number k (0 = least significant) of a
BigBit(a, k) == (Limb(a, k \div 15 + 1) \div Pow2(k % 15)) % 2

\* TRUE iff some bit below bit number k is set
BigLowNonZero(a, k) ==
    \/ \E i \in 1..Len(a) : i <= k \div 15 /\ a[i] # 0
    \/ Limb(a, k \div 15 + 1) % Pow2(k % 15) # 0

(***************************************************************************)
(* IEEE-754 binary64, non-negative finite values: value = m * 2^e with     *)
(* m = 0 (and e = 0) or 2^52 <= m < 2^53.                                  *)
(***************************************************************************)
Precision == 53

FZero == [m |-> <<>>, e |-> 0]

\* round-half-to-even of n / 2^s, whose floor is q: TRUE iff q is to be
\* incremented
RoundUp(n, s, q) ==
    /\ BigBit(n, s - 1) = 1
    /\ (BigLowNonZero(n, s - 1) \/ BigBit(q, 0) = 1)

\* q * 2^e with q < 2^54: one more halving if the increment carried out
Renormalize(q, e) ==
    Then(q, IF BigBitLen(q) > Precision
            THEN [m |-> BigShr(q, 1), e |-> e + 1]
            ELSE [m |-> q, e |-> e])

\* n * 2^e for n of more than 53 bits, q = floor(n / 2^s)
RoundShifted(n, s, q, e) ==
    Then(q, Renormalize(IF RoundUp(n, s, q) THEN BigAdd(q, <<1>>) ELSE q, e + s))

\* n * 2^e for n # 0 of len bits
RoundLen(n, e, len) ==
    IF len <= Precision
    THEN [m |-> BigShl(n, Precision - len), e |-> e - (Precision - len)]
    ELSE RoundShifted(n, len - Precision, BigShr(n, len - Precision), e)

\* round the exact value n * 2^e to the nearest double, ties to even
FRound(n, e) == IF n = <<>> THEN FZero ELSE RoundLen(n, e, BigBitLen(n))

FFromInt(n) == FRound(BigFromInt(n), 0)

FMul(x, y) ==
    IF x = FZero \/ y = FZero THEN FZero
    ELSE FRound(BigMul(x.m, y.m), x.e + y.e)

\* x + y for x, y # 0, e the smaller of their exponents
AddAligned(x, y, e) ==
    FRound(BigAdd(BigShl(x.m, x.e - e), BigShl(y.m, y.e - e)), e)

FAdd(x, y) ==
    IF x = FZero THEN y
    ELSE IF y = FZero THEN x
    ELSE AddAligned(x, y, IF x.e < y.e THEN x.e ELSE y.e)

\* the trial digit of r / d from the leading limbs, at most Base - 1
TrialDigit(r, d) ==
    (IF (Limb(r, Len(d) + 1) * Base + Limb(r, Len(d))) \div d[Len(d)] > Base - 1
     THEN Base - 1
     ELSE (Limb(r, Len(d) + 1) * Base + Limb(r, Len(d))) \div d[Len(d)])

\* the trial digit, lowered until d * digit <= r
CorrectDigit(r, d, qhat) ==
    IF BigCmp(BigMulSmall(d, qhat), r) <= 0 THEN qhat
    ELSE IF BigCmp(BigMulSmall(d, qhat - 1), r) <= 0 THEN qhat - 1
    ELSE qhat - 2

DigitAndRest(r, d, dig) == Then(dig, <<dig, BigSub(r, BigMulSmall(d, dig))>>)

\* one step of schoolbook division: the quotient digit and remainder of
\* r / d for r < d * Base; d has its top limb >= Base / 2, so the trial
\* digit taken from the leading limbs is at most 2 too large
DivStep(r, d) == DigitAndRest(r, d, CorrectDigit(r, d, TrialDigit(r, d)))

FracJoin(dig, rest) == Then(rest, <<rest[1] \o <<dig>>, rest[2]>>)

RECURSIVE FracDigits(_, _, _)
FracNext(st, d, k) == Then(st, FracJoin(st[1], FracDigits(st[2], d, k - 1)))

\* the next k base-2^15 digits of r / d (r < d), most significant last in
\* the little-endian result: <<quotient, remainder>>
FracDigits(r, d, k) ==
    IF k = 0 THEN <<<<>>, r>>
    ELSE FracNext(DivStep(BigShlLimbs(r, 1), d), d, k)

\* the quotient digits with a sticky bit for the remainder
Sticky(q, rest) ==
    Then(q, BigAdd(BigMulSmall(q, 2), IF rest = <<>> THEN <<>> ELSE <<1>>))

Quotient(st, fr) == Then(fr, Sticky(BigNorm(fr[1] \o <<st[1]>>), fr[2]))

QuotientFrom(st, d) == Then(st, Quotient(st, FracDigits(st[2], d, 4)))

\* floor(n * 2^60 / d) * 2 + sticky, for n < d * Base
BigQuotient(n, d) == Then(n, Then(d, QuotientFrom(DivStep(n, d), d)))

\* x / y for y # 0: the quotient of the significands to 60 fractional bits,
\* with a sticky bit for the remainder, rounded once
FDiv(x, y) ==
    IF x = FZero THEN FZero
    ELSE FRound(BigQuotient(BigShl(x.m, 7), BigShl(y.m, 7)), x.e - y.e - 61)

\* -1, 0, 1 as x < y, x = y, x > y
FCmp(x, y) ==
    IF x = y THEN 0
    ELSE IF x = FZero THEN -1
    ELSE IF y = FZero THEN 1
    ELSE IF x.e < y.e THEN -1
    ELSE IF x.e > y.e THEN 1
    ELSE BigCmp(x.m, y.m)

\* format(x, '.3f') as a number of thousandths, round-half-to-even on the
\* exact binary value
ThousandthsShifted(n, s, q) ==
    Then(q, BigToInt(q) + (IF RoundUp(n, s, q) THEN 1 ELSE 0))

ThousandthsOf(n, e) ==
    Then(n, IF e >= 0 THEN BigToInt(BigShl(n, e))
            ELSE ThousandthsShifted(n, 0 - e, BigShr(n, 0 - e)))

Thousandths(x) ==
    IF x = FZero THEN 0 ELSE ThousandthsOf(BigMulInt(x.m, 1000), x.e)
(***************************************************************************)
(* Python str: a sequence of one-character strings.                        *)
(***************************************************************************)
\* the characters in use, in code-point order
CharOrder ==
    <<"\t", "\n", "\f", "\r", " ", "\"", ",", "/", "0", "1", "2", "3", "4", "5", "6", "7", "8", "9", ":", "A", "B", "C", "D", "E", "F", "G", "H", "I", "J", "K", "L", "M", "N", "O", "P", "Q", "R", "S", "T", "U", "V", "W", "X", "Y", "Z", "_", "a", "b", "c", "d", "e", "f", "g", "h", "i", "j", "k", "l", "m", "n", "o", "p", "q", "r", "s", "t", "u", "v", "w", "x", "y", "z", "|">>

Ord(c) == CHOOSE i \in 1..Len(CharOrder) : CharOrder[i] = c

\* str.isspace() within CharOrder
Whitespace == {"\t", "\n", "\f", "\r", " "}

UpperCase == <<"A", "B", "C", "D", "E", "F", "G", "H", "I", "J", "K", "L", "M", "N", "O", "P", "Q", "R", "S", "T", "U", "V", "W", "X", "Y", "Z">>
LowerCase == <<"a", "b", "c", "d", "e", "f", "g", "h", "i", "j", "k", "l", "m", "n", "o", "p", "q", "r", "s", "t", "u", "v", "w", "x", "y", "z">>

LowerChar(c) ==
    IF \E i \in 1..26 : UpperCase[i] = c
    THEN LowerCase[CHOOSE i \in 1..26 : UpperCase[i] = c]
    ELSE c

\* str.lower()
lower(s) == [i \in 1..Len(s) |-> LowerChar(s[i])]

\* str.strip(chars)
strip_chars(s, chars) ==
    LET keep == {i \in 1..Len(s) : s[i] \notin chars}
    IN  IF keep = {} THEN <<>>
        ELSE SubSeq(s, CHOOSE i \in keep : \A j \in keep : i <= j,
                       CHOOSE i \in keep : \A j \in keep : j <= i)

\* str.strip()
strip(s) == strip_chars(s, Whitespace)

\* str.split(sep) for a one-character sep: the pieces between separators,
\* one more than there are separators
split(s, sep) ==
    LET at     == {i \in 1..Len(s) : s[i] = sep}
        cut(k) == IF k = 0 THEN 0
                  ELSE IF k > Cardinality(at) THEN Len(s) + 1
                  ELSE CHOOSE i \in at : Cardinality({j \in at : j < i}) = k - 1
    IN  [k \in 1..(Cardinality(at) + 1) |->
            SubSeq(s, cut(k - 1) + 1, cut(k) - 1)]

RECURSIVE join(_, _)
\* sep.join(parts)
join(sep, parts) ==
    IF parts = <<>> THEN <<>>
    ELSE IF Len(parts) = 1 THEN parts[1]
    ELSE parts[1] \o sep \o join(sep, Tail(parts))

\* a < b on str: lexicographic by code point
StrLess(a, b) ==
    \E i \in 1..(Len(b)) :
        /\ \A j \in 1..(i - 1) : j <= Len(a) /\ a[j] = b[j]
        /\ (i > Len(a) \/ (i - 1 < Len(a) /\ Ord(a[i]) < Ord(b[i])))

\* sorted(S) for a set of str
sorted(S) ==
    [k \in 1..Cardinality(S) |->
        CHOOSE x \in S : Cardinality({y \in S : StrLess(y, x)}) = k - 1]

\* [f(x) for x in seq]
Map(f(_), seq) == [i \in 1..Len(seq) |-> f(seq[i])]

\* set(seq)
Range(seq) == {seq[i] : i \in 1..Len(seq)}

\* str(n) for 0 <= n < 1000
Digits == <<"0", "1", "2", "3", "4", "5", "6", "7", "8", "9">>
Digit(n) == Digits[(n % 10) + 1]

str_int(n) ==
    IF n < 10 THEN <<Digit(n)>>
    ELSE IF n < 100 THEN <<Digit(n \div 10), Digit(n)>>
    ELSE <<Digit(n \div 100), Digit(n \div 10), Digit(n)>>

\* f"{x:.3f}" for 0 <= x < 1000
format_thousandths(t) ==
    str_int(t \div 1000) \o <<".">> \o
    <<Digit(t \div 100), Digit(t \div 10), Digit(t)>>

format_3f(x) == format_thousandths(Thousandths(x))

(***************************************************************************)
(* normalize_aspect_name                                                   *)
(***************************************************************************)
\* the table with one canonical value written as the variant it should absorb
mapping_variant_value ==
    (<<"m", "a", "t", "e", "r", "i", "a", "l", "/", " ", "q", "u", "a", "l", "i", "t", "y">> :> <<"M", "a", "t", "e", "r", "i", "a", "l", "/", "Q", "u", "a", "l", "i", "t", "y">>) @@
    (<<"m", "a", "t", "e", "r", "i", "a", "l", "/", "q", "u", "a", "l", "i", "t", "y">> :> <<"M", "a", "t", "e", "r", "i", "a", "l", "/", "Q", "u", "a", "l", "i", "t", "y">>) @@
    (<<"s", "i", "z", "i", "n", "g", "/", "f", "i", "t">> :> <<"F", "i", "t", "/", "S", "i", "z", "i", "n", "g">>) @@
    (<<"f", "i", "t", "/", "s", "i", "z", "i", "n", "g">> :> <<"S", "i", "z", "i", "n", "g", "/", "F", "i", "t">>) @@
    (<<"c", "o", "m", "f", "o", "r", "t">> :> <<"C", "o", "m", "f", "o", "r", "t">>) @@
    (<<"s", "t", "y", "l", "e">> :> <<"C", "o", "l", "o", "r", "/", "A", "e", "s", "t", "h", "e", "t", "i", "c", "s">>) @@
    (<<"c", "o", "l", "o", "r", "/", "a", "e", "s", "t", "h", "e", "t", "i", "c", "s">> :> <<"C", "o", "l", "o", "r", "/", "A", "e", "s", "t", "h", "e", "t", "i", "c", "s">>) @@
    (<<"d", "u", "r", "a", "b", "i", "l", "i", "t", "y">> :> <<"D", "u", "r", "a", "b", "i", "l", "i", "t", "y">>) @@
    (<<"s", "h", "i", "p", "p", "i", "n", "g", "/", "p", "a", "c", "k", "a", "g", "i", "n", "g">> :> <<"S", "h", "i", "p", "p", "i", "n", "g", "/", "P", "a", "c", "k", "a", "g", "i", "n", "g">>) @@
    (<<"i", "n", "s", "t", "r", "u", "c", "t", "i", "o", "n", "/", " ", "u", "x">> :> <<"I", "n", "s", "t", "r", "u", "c", "t", "i", "o", "n", "s", "/", "U", "X">>) @@
    (<<"i", "n", "s", "t", "r", "u", "c", "t", "i", "o", "n", "s", "/", "u", "x">> :> <<"I", "n", "s", "t", "r", "u", "c", "t", "i", "o", "n", "s", "/", "U", "X">>) @@
    (<<"v", "a", "l", "u", "e", "/", "p", "r", "i", "c", "e">> :> <<"V", "a", "l", "u", "e", "/", "P", "r", "i", "c", "e">>)

mapping ==
    (<<"m", "a", "t", "e", "r", "i", "a", "l", "/", " ", "q", "u", "a", "l", "i", "t", "y">> :> <<"M", "a", "t", "e", "r", "i", "a", "l", "/", "Q", "u", "a", "l", "i", "t", "y">>) @@
    (<<"m", "a", "t", "e", "r", "i", "a", "l", "/", "q", "u", "a", "l", "i", "t", "y">> :> <<"M", "a", "t", "e", "r", "i", "a", "l", "/", "Q", "u", "a", "l", "i", "t", "y">>) @@
    (<<"s", "i", "z", "i", "n", "g", "/", "f", "i", "t">> :> <<"S", "i", "z", "i", "n", "g", "/", "F", "i", "t">>) @@
    (<<"f", "i", "t", "/", "s", "i", "z", "i", "n", "g">> :> <<"S", "i", "z", "i", "n", "g", "/", "F", "i", "t">>) @@
    (<<"c", "o", "m", "f", "o", "r", "t">> :> <<"C", "o", "m", "f", "o", "r", "t">>) @@
    (<<"s", "t", "y", "l", "e">> :> <<"C", "o", "l", "o", "r", "/", "A", "e", "s", "t", "h", "e", "t", "i", "c", "s">>) @@
    (<<"c", "o", "l", "o", "r", "/", "a", "e", "s", "t", "h", "e", "t", "i", "c", "s">> :> <<"C", "o", "l", "o", "r", "/", "A", "e", "s", "t", "h", "e", "t", "i", "c", "s">>) @@
    (<<"d", "u", "r", "a", "b", "i", "l", "i", "t", "y">> :> <<"D", "u", "r", "a", "b", "i", "l", "i", "t", "y">>) @@
    (<<"s", "h", "i", "p", "p", "i", "n", "g", "/", "p", "a", "c", "k", "a", "g", "i", "n", "g">> :> <<"S", "h", "i", "p", "p", "i", "n", "g", "/", "P", "a", "c", "k", "a", "g", "i", "n", "g">>) @@
    (<<"i", "n", "s", "t", "r", "u", "c", "t", "i", "o", "n", "/", " ", "u", "x">> :> <<"I", "n", "s", "t", "r", "u", "c", "t", "i", "o", "n", "s", "/", "U", "X">>) @@
    (<<"i", "n", "s", "t", "r", "u", "c", "t", "i", "o", "n", "s", "/", "u", "x">> :> <<"I", "n", "s", "t", "r", "u", "c", "t", "i", "o", "n", "s", "/", "U", "X">>) @@
    (<<"v", "a", "l", "u", "e", "/", "p", "r", "i", "c", "e">> :> <<"V", "a", "l", "u", "e", "/", "P", "r", "i", "c", "e">>)

normalize_aspect_name(raw) ==
    LET stripped     == strip(raw)
        aspect_lower == lower(stripped)
    IN  IF aspect_lower \in DOMAIN mapping
        THEN mapping[aspect_lower]
        ELSE stripped

(***************************************************************************)
(* dict: a function on the set of its keys.                                *)
(***************************************************************************)
EmptyDict == <<>>

\* d[k] = v
DictSet(d, k, v) ==
    [x \in (DOMAIN d) \cup {k} |-> IF x = k THEN v ELSE d[x]]

\* d.get(k, default)
DictGet(d, k, default) == IF k \in DOMAIN d THEN d[k] ELSE default

(***************************************************************************)
(* load_rita_aspects: one csv.DictReader row is a record with the two      *)
(* columns the loader reads.                                               *)
(***************************************************************************)
\* the loop body with the row's list appended to the entry it should replace
rita_row_merging(revs, row) ==
    LET review_id   == row.Review_ID
        aspects_str == row.Rita_Aspect
        aspects     == SelectSeq(Map(normalize_aspect_name, split(aspects_str, ",")),
                                 LAMBDA a : a # <<>>)
    IN  DictSet(revs, review_id, DictGet(revs, review_id, <<>>) \o aspects)

\* the body of the loop over the rows: the row's list replaces the entry
rita_row(revs, row) ==
    LET review_id   == row.Review_ID
        aspects_str == row.Rita_Aspect
        aspects     == SelectSeq(Map(normalize_aspect_name, split(aspects_str, ",")),
                                 LAMBDA a : a # <<>>)
    IN  DictSet(revs, review_id, aspects)

RECURSIVE load_rows(_, _)
load_rows(revs, rows) ==
    IF rows = <<>> THEN revs
    ELSE load_rows(rita_row(revs, Head(rows)), Tail(rows))

load_rita_aspects(rows) == load_rows(EmptyDict, rows)

(***************************************************************************)
(* load_gemini_aspects: the file is the sequence of its lines.             *)
(***************************************************************************)
\* line.strip().strip('"').split(',')
gemini_parts(line) == split(strip_chars(strip(line), {"\""}), ",")

\* the loop body with the aspect stored in place of the list it should extend
gemini_line_replacing(revs, line) ==
    LET parts == gemini_parts(line)
    IN  IF Len(parts) < 2 THEN revs
        ELSE LET review_id         == strip(parts[1])
                 aspect            == strip(parts[2])
                 aspect_normalized == normalize_aspect_name(aspect)
             IN  IF aspect_normalized # <<>>
                 THEN DictSet(revs, review_id, <<aspect_normalized>>)
                 ELSE revs

\* the body of the loop over the lines after the header
gemini_line(revs, line) ==
    LET parts == gemini_parts(line)
    IN  IF Len(parts) < 2 THEN revs
        ELSE LET review_id         == strip(parts[1])
                 aspect            == strip(parts[2])
                 aspect_normalized == normalize_aspect_name(aspect)
             IN  IF aspect_normalized # <<>>
                 THEN DictSet(revs, review_id,
                              Append(DictGet(revs, review_id, <<>>),
                                     aspect_normalized))
                 ELSE revs

RECURSIVE load_lines(_, _)
load_lines(revs, lines) ==
    IF lines = <<>> THEN revs
    ELSE load_lines(gemini_line(revs, Head(lines)), Tail(lines))

\* lines[1:]
after_header(lines) == IF lines = <<>> THEN <<>> ELSE Tail(lines)

load_gemini_aspects(lines) == load_lines(EmptyDict, after_header(lines))

(***************************************************************************)
(* calculate_metrics                                                       *)
(***************************************************************************)
FOne == FFromInt(1)
FTwo == FFromInt(2)

\* the float that stands for a raised ZeroDivisionError; no operation
\* yields it (a zero significand always comes with exponent 0)
ZeroDivisionError == [m |-> <<>>, e |-> 1]

\* x / y on floats
float_div(x, y) ==
    Then(x, Then(y, IF y = FZero THEN ZeroDivisionError ELSE FDiv(x, y)))

\* a / b on ints (true division)
int_div(a, b) == float_div(FFromInt(a), FFromInt(b))

\* set(aspects), without the case folding
lower_set_case_sensitive(aspects) == {aspects[i] : i \in 1..Len(aspects)}

\* set(a.lower() for a in aspects)
lower_set(aspects) == {lower(aspects[i]) : i \in 1..Len(aspects)}

\* the group listed in descending order
detail_group_descending(name, group) ==
    LET up == sorted(group)
    IN  name \o join(<<",", " ">>, [i \in 1..Len(up) |-> up[Len(up) + 1 - i]])

\* f"{name}{', '.join(sorted(group))}"
detail_group(name, group) == name \o join(<<",", " ">>, sorted(group))

\* lines 135-145
details_of(matches, missed, extra) ==
    LET details ==
            (IF matches # {} THEN <<detail_group(<<"M", "a", "t", "c", "h", "e", "d", ":", " ">>, matches)>> ELSE <<>>)
            \o (IF Cardinality(missed) > 0
                THEN <<detail_group(<<"M", "i", "s", "s", "e", "d", ":", " ">>, missed)>> ELSE <<>>)
            \o (IF Cardinality(extra) > 0
                THEN <<detail_group(<<"E", "x", "t", "r", "a", ":", " ">>, extra)>> ELSE <<>>)
    IN  IF details # <<>> THEN join(<<" ", "|", " ">>, details) ELSE <<"P", "e", "r", "f", "e", "c", "t", " ", "m", "a", "t", "c", "h">>

\* x / total if total > 0 else 0.0
guarded_div(x, total) ==
    Then(total, IF FCmp(total, FZero) > 0 THEN float_div(x, total) ELSE FZero)

\* lines 129-132 without the factor 2
f1_of_halved(recall, precision) ==
    guarded_div(FMul(recall, precision), FAdd(recall, precision))

\* lines 129-132
f1_of(recall, precision) ==
    guarded_div(FMul(FTwo, FMul(recall, precision)), FAdd(recall, precision))

Metrics(recall, precision, f1, tp, fn, fp, details) ==
    [recall |-> recall, precision |-> precision, f1 |-> f1,
     tp |-> tp, fn |-> fn, fp |-> fp, details |-> details,
     raised |-> ZeroDivisionError \in {recall, precision, f1}]

\* lines 129-147
rated_metrics(rita_set, gemini_set, recall, precision, f1) ==
    Then(f1,
        Metrics(recall, precision, f1,
                Cardinality(rita_set \cap gemini_set),
                Cardinality(rita_set \ gemini_set),
                Cardinality(gemini_set \ rita_set),
                details_of(rita_set \cap gemini_set, rita_set \ gemini_set,
                           gemini_set \ rita_set)))

\* lines 129-132
with_f1(rita_set, gemini_set, recall, precision) ==
    Then(recall, Then(precision,
        rated_metrics(rita_set, gemini_set, recall, precision,
                      f1_of(recall, precision))))

\* lines 119-127
set_metrics(rita_set, gemini_set) ==
    with_f1(rita_set, gemini_set,
            IF Cardinality(rita_set) > 0
            THEN int_div(Cardinality(rita_set \cap gemini_set), Cardinality(rita_set))
            ELSE FZero,
            IF Cardinality(gemini_set) > 0
            THEN int_div(Cardinality(rita_set \cap gemini_set), Cardinality(gemini_set))
            ELSE FZero)

\* lines 114-147
general_metrics(rita, gemini) == set_metrics(lower_set(rita), lower_set(gemini))

\* the calculator without the early returns of lines 105-112
calculate_metrics_no_table(rita, gemini) == general_metrics(rita, gemini)

calculate_metrics(rita, gemini) ==
    IF rita = <<>> /\ gemini = <<>>
    THEN Metrics(FOne, FOne, FOne, 0, 0, 0, <<"B", "o", "t", "h", " ", "e", "m", "p", "t", "y">>)
    ELSE IF rita = <<>>
    THEN Metrics(FZero, FZero, FZero, 0, 0, Len(gemini), <<"R", "i", "t", "a", " ", "h", "a", "s", " ", "n", "o", " ", "a", "s", "p", "e", "c", "t", "s">>)
    ELSE IF gemini = <<>>
    THEN Metrics(FZero, FZero, FZero, 0, Len(rita), 0, <<"G", "e", "m", "i", "n", "i", " ", "f", "o", "u", "n", "d", " ", "n", "o", " ", "a", "s", "p", "e", "c", "t", "s">>)
    ELSE general_metrics(rita, gemini)

(***************************************************************************)
(* run_audit                                                               *)
(***************************************************************************)
Threshold == 80
FThreshold == FFromInt(Threshold)
FHundred == FFromInt(100)

\* results[0].keys(): the columns of the artifact, in order
fieldnames ==
    <<"Review_ID", "Rita_Aspects", "Rita_Count", "Gemini_Aspects",
      "Gemini_Count", "True_Positives", "False_Negatives", "False_Positives",
      "Recall", "Precision", "F1_Score", "Details">>

\* the identifiers of the Rita file only
all_reviews_of_rita(rita_d, gemini_d) == sorted(DOMAIN rita_d)

\* sorted(set(rita_data.keys()) | set(gemini_data.keys()))
all_reviews_of(rita_d, gemini_d) == sorted((DOMAIN rita_d) \cup (DOMAIN gemini_d))

\* ', '.join(aspects) if aspects else 'NONE'
aspects_text(aspects) ==
    IF aspects # <<>> THEN join(<<",", " ">>, aspects) ELSE <<"N", "O", "N", "E">>

\* lines 188-201
result_row(review_id, rita, gemini, mt) ==
    [Review_ID       |-> review_id,
     Rita_Aspects    |-> aspects_text(rita),
     Rita_Count      |-> Len(rita),
     Gemini_Aspects  |-> aspects_text(gemini),
     Gemini_Count    |-> Len(gemini),
     True_Positives  |-> mt.tp,
     False_Negatives |-> mt.fn,
     False_Positives |-> mt.fp,
     Recall          |-> format_3f(mt.recall),
     Precision       |-> format_3f(mt.precision),
     F1_Score        |-> format_3f(mt.f1),
     Details         |-> mt.details]

\* lines 173-178
ZeroTotals ==
    [recall |-> FZero, precision |-> FZero, f1 |-> FZero,
     tp |-> 0, fn |-> 0, fp |-> 0]

\* lines 203-208
add_totals(t, mt) ==
    [recall    |-> FAdd(t.recall, mt.recall),
     precision |-> FAdd(t.precision, mt.precision),
     f1        |-> FAdd(t.f1, mt.f1),
     tp        |-> t.tp + mt.tp,
     fn        |-> t.fn + mt.fn,
     fp        |-> t.fp + mt.fp]

\* lines 212-216: nothing is written, not even the header, without results
written(rows) == IF rows # <<>> THEN <<fieldnames>> \o rows ELSE <<>>

\* (total / num_reviews * 100) if num_reviews > 0 else 0
macro_of(total, num_reviews) ==
    IF num_reviews > 0
    THEN FMul(float_div(total, FFromInt(num_reviews)), FHundred)
    ELSE FZero

\* (total_tp / (total_tp + other) * 100) if (total_tp + other) > 0 else 0
micro_of(total_tp, other) ==
    IF total_tp + other > 0
    THEN FMul(int_div(total_tp, total_tp + other), FHundred)
    ELSE FZero

\* lines 230-233
micro_f1_of(micro_recall, micro_precision) ==
    guarded_div(FMul(FTwo, FMul(micro_recall, micro_precision)),
                FAdd(micro_recall, micro_precision))

\* the dict of lines 308-316
summary_dict(t, macro_f1, micro_f1, micro_recall, micro_precision) ==
    Then(macro_f1, Then(micro_f1,
        [macro_f1        |-> macro_f1,
         micro_f1        |-> micro_f1,
         micro_recall    |-> micro_recall,
         micro_precision |-> micro_precision,
         total_tp        |-> t.tp,
         total_fn        |-> t.fn,
         total_fp        |-> t.fp]))

\* lines 224 and 230-233 with the micro F1 reported as the macro F1 as well
with_micro_f1_substituted(t, num_reviews, micro_recall, micro_precision) ==
    Then(micro_recall, Then(micro_precision,
        summary_dict(t, micro_f1_of(micro_recall, micro_precision),
                     micro_f1_of(micro_recall, micro_precision),
                     micro_recall, micro_precision)))

\* lines 224 and 230-233
with_micro_f1(t, num_reviews, micro_recall, micro_precision) ==
    Then(micro_recall, Then(micro_precision,
        summary_dict(t, macro_of(t.f1, num_reviews),
                     micro_f1_of(micro_recall, micro_precision),
                     micro_recall, micro_precision)))

\* lines 219-233 and the dict of lines 308-316
summary_of(t, num_reviews) ==
    with_micro_f1(t, num_reviews, micro_of(t.tp, t.fn), micro_of(t.tp, t.fp))

\* line 268
green_light(decision_metric) == FCmp(decision_metric, FThreshold) >= 0

\* float(r['F1_Score']) in thousandths
DigitValue(c) == (CHOOSE i \in 1..10 : Digits[i] = c) - 1
f1_thousandths(text) ==
    LET n == Len(text)
    IN  DigitValue(text[n]) + 10 * DigitValue(text[n - 1])
        + 100 * DigitValue(text[n - 2]) + 1000 * DigitValue(text[n - 4])

\* lines 297-302: the reviews listed as worst performing, in print order:
\* a stable sort by F1, then the first 10 below 0.50
worst_of(rows) ==
    LET key(i)  == f1_thousandths(rows[i].F1_Score)
        rank(i) == Cardinality({j \in 1..Len(rows) :
                        key(j) < key(i) \/ (key(j) = key(i) /\ j < i)})
        ordered == [k \in 1..Len(rows) |->
                        rows[CHOOSE i \in 1..Len(rows) : rank(i) = k - 1]]
        low     == SelectSeq(ordered, LAMBDA r : f1_thousandths(r.F1_Score) < 500)
    IN  Map(LAMBDA r : r.Review_ID,
            SubSeq(low, 1, IF Len(low) < 10 THEN Len(low) ELSE 10))

(***************************************************************************)
(* State.  Each of the five specifications below drives one component;     *)
(* the variables of the other components stay at their initial values.     *)
(***************************************************************************)
VARIABLES
    pc,              \* position in the component being run
    raw_label,       \* normalizer: the raw input
    normalized,      \* normalizer: normalize_aspect_name(raw_label)
    renormalized,    \* normalizer: normalize_aspect_name(normalized)
    rita_aspects,    \* calculator: first argument
    gemini_aspects,  \* calculator: second argument
    metrics,         \* calculator: the returned tuple
    rita_rows,       \* the rows csv.DictReader yields for the Rita file
    gemini_lines,    \* f.readlines() of the Gemini file
    pos,             \* loaders: index of the next row / line
    reviews,         \* loaders: the dict being built
    rita_data,       \* run_audit locals ...
    gemini_data,
    all_reviews,
    results,
    totals,
    artifact,        \* the rows written to output_csv
    summary,         \* the returned dict
    decision,        \* which branch of line 268 printed
    worst            \* the reviews printed as worst performing

normVars   == <<raw_label, normalized, renormalized>>
metricVars == <<rita_aspects, gemini_aspects, metrics>>
fileVars   == <<rita_rows, gemini_lines>>
loaderVars == <<pos, reviews>>
auditVars  == <<rita_data, gemini_data, all_reviews, results, totals,
                artifact, summary, decision, worst>>
vars == <<pc, normVars, metricVars, fileVars, loaderVars, auditVars>>

NoMetrics == [raised |-> FALSE]
NoSummary == [total_tp |-> 0]

NormIdle   == raw_label = <<>> /\ normalized = <<>> /\ renormalized = <<>>
MetricIdle == rita_aspects = <<>> /\ gemini_aspects = <<>> /\ metrics = NoMetrics
FileIdle   == rita_rows = <<>> /\ gemini_lines = <<>>
LoaderIdle == pos = 1 /\ reviews = EmptyDict
AuditIdle  ==
    /\ rita_data = EmptyDict /\ gemini_data = EmptyDict
    /\ all_reviews = <<>> /\ results = <<>> /\ totals = ZeroTotals
    /\ artifact = <<>> /\ summary = NoSummary /\ decision = "" /\ worst = <<>>

\* all sequences over S of length at most n
SeqsUpTo(S, n) == UNION {[1..k -> S] : k \in 0..n}

(***************************************************************************)
(* The normalizer, applied twice to a raw label.                           *)
(***************************************************************************)
MaxPad == 1
MaxShort == 2

UpperChar(c) ==
    IF \E i \in 1..26 : LowerCase[i] = c
    THEN UpperCase[CHOOSE i \in 1..26 : LowerCase[i] = c]
    ELSE c
upper(s) == [i \in 1..Len(s) |-> UpperChar(s[i])]
capitalize(s) == [i \in 1..Len(s) |-> IF i = 1 THEN UpperChar(s[i]) ELSE s[i]]

CanonicalValues == {mapping[k] : k \in DOMAIN mapping}

UnknownLabels ==
    {<<"Z", "i", "p">>, <<"z", "i", "p">>, <<"B", "a", "t", "t", "e", "r", "y", " ", "L", "i", "f", "e">>, <<"m", "a", "t", "e", "r", "i", "a", "l", " ", "/", "q", "u", "a", "l", "i", "t", "y">>, <<"s", "t", "y", "l", "e", "s">>}

\* table keys in three letter cases, canonical values, unknown labels and
\* every short string over a letter in both cases, a blank and a comma
CoreLabels ==
    (DOMAIN mapping) \cup {upper(k) : k \in DOMAIN mapping}
    \cup {capitalize(k) : k \in DOMAIN mapping}
    \cup CanonicalValues \cup UnknownLabels
    \cup SeqsUpTo({"x", "X", " ", ","}, MaxShort)

Pads == SeqsUpTo({" ", "\t", "\n"}, MaxPad)

RawLabels == {l \o c \o r : l \in Pads, c \in CoreLabels, r \in Pads}

InitNormalize ==
    /\ pc = "raw"
    /\ raw_label \in RawLabels
    /\ normalized = <<>> /\ renormalized = <<>>
    /\ MetricIdle /\ FileIdle /\ LoaderIdle /\ AuditIdle

NormalizeOnce ==
    /\ pc = "raw"
    /\ normalized' = normalize_aspect_name(raw_label)
    /\ pc' = "once"
    /\ UNCHANGED <<raw_label, renormalized, metricVars, fileVars, loaderVars, auditVars>>

NormalizeTwice ==
    /\ pc = "once"
    /\ renormalized' = normalize_aspect_name(normalized)
    /\ pc' = "twice"
    /\ UNCHANGED <<raw_label, normalized, metricVars, fileVars, loaderVars, auditVars>>

NextNormalize == NormalizeOnce \/ NormalizeTwice

SpecNormalize == InitNormalize /\ [][NextNormalize]_vars

(***************************************************************************)
(* The calculator, applied to a pair of label lists.                       *)
(***************************************************************************)
MaxLabels == 2

MetricLabels == {<<"C", "o", "m", "f", "o", "r", "t">>, <<"D", "u", "r", "a", "b", "i", "l", "i", "t", "y">>, <<"z", "i", "p">>, <<"Z", "i", "p">>}

LabelLists == SeqsUpTo(MetricLabels, MaxLabels)

InitMetrics ==
    /\ pc = "args"
    /\ rita_aspects \in LabelLists
    /\ gemini_aspects \in LabelLists
    /\ metrics = NoMetrics
    /\ NormIdle /\ FileIdle /\ LoaderIdle /\ AuditIdle

Compare ==
    /\ pc = "args"
    /\ metrics' = calculate_metrics(rita_aspects, gemini_aspects)
    /\ pc' = "compared"
    /\ UNCHANGED <<rita_aspects, gemini_aspects, normVars, fileVars, loaderVars, auditVars>>

NextMetrics == Compare

SpecMetrics == InitMetrics /\ [][NextMetrics]_vars

(***************************************************************************)
(* load_rita_aspects, one row per step.                                    *)
(***************************************************************************)
MaxRitaRows == 3

RitaIds == {<<"R", "1">>, <<"R", "2">>}

RitaCells ==
    {<<>>, <<"C", "o", "m", "f", "o", "r", "t">>, <<" ", "s", "t", "y", "l", "e", " ", ",", " ", "F", "i", "t", "/", "S", "i", "z", "i", "n", "g">>, <<",", ",">>, <<"z", "i", "p", ",", ",", "C", "o", "m", "f", "o", "r", "t", " ">>, <<" ">>}

RitaRowChoices == {[Review_ID |-> i, Rita_Aspect |-> c] : i \in RitaIds, c \in RitaCells}

InitRita ==
    /\ pc = "rita_loop"
    /\ rita_rows \in SeqsUpTo(RitaRowChoices, MaxRitaRows)
    /\ gemini_lines = <<>>
    /\ LoaderIdle
    /\ NormIdle /\ MetricIdle /\ AuditIdle

\* one iteration of the loop of lines 51-59
RitaRow ==
    /\ pc = "rita_loop"
    /\ pos <= Len(rita_rows)
    /\ reviews' = rita_row(reviews, rita_rows[pos])
    /\ pos' = pos + 1
    /\ UNCHANGED <<pc, normVars, metricVars, fileVars, auditVars>>

\* line 61
RitaReturn ==
    /\ pc = "rita_loop"
    /\ pos > Len(rita_rows)
    /\ pc' = "rita_returned"
    /\ UNCHANGED <<normVars, metricVars, fileVars, loaderVars, auditVars>>

NextRita == RitaRow \/ RitaReturn

SpecRita == InitRita /\ [][NextRita]_vars

(***************************************************************************)
(* load_gemini_aspects, one line per step.                                 *)
(***************************************************************************)
MaxGeminiLines == 3

GeminiHeader == <<"R", "e", "v", "i", "e", "w", "_", "I", "D", ",", "A", "s", "p", "e", "c", "t", ",", "S", "e", "n", "t", "i", "m", "e", "n", "t", ",", "E", "v", "i", "d", "e", "n", "c", "e", "\n">>

GeminiLineChoices ==
    {<<"R", "1", ",", "C", "o", "m", "f", "o", "r", "t", ",", "n", "e", "g", "a", "t", "i", "v", "e", ",", "\"", "t", "h", "i", "n", "\"", "\n">>,
     <<"\"", "R", "1", ",", "f", "i", "t", "/", "s", "i", "z", "i", "n", "g", ",", "n", "e", "g", "a", "t", "i", "v", "e", ",", "\"", "\"", "r", "u", "n", "s", " ", "s", "m", "a", "l", "l", ",", " ", "t", "i", "g", "h", "t", "\"", "\"", "\"", "\n">>,
     <<"R", "2", ",", " ", "s", "t", "y", "l", "e", " ", "\n">>,
     <<"\"", "R", "2", ",", "z", "i", "p", "\"", "\n">>,
     <<"R", "1", ",", ",", "p", "o", "s", "i", "t", "i", "v", "e", "\n">>,
     <<"R", "1", ",", " ", ",", "\n">>,
     <<"R", "1", "\n">>,
     <<"\n">>}

\* an empty file, or the header followed by data lines
GeminiFiles ==
    {<<>>} \cup {<<GeminiHeader>> \o b : b \in SeqsUpTo(GeminiLineChoices, MaxGeminiLines)}

InitGemini ==
    /\ pc = "gemini_loop"
    /\ gemini_lines \in GeminiFiles
    /\ rita_rows = <<>>
    /\ pos = 2 /\ reviews = EmptyDict
    /\ NormIdle /\ MetricIdle /\ AuditIdle

\* one iteration of the loop of lines 76-94 over lines[1:]
GeminiLine ==
    /\ pc = "gemini_loop"
    /\ pos <= Len(gemini_lines)
    /\ reviews' = gemini_line(reviews, gemini_lines[pos])
    /\ pos' = pos + 1
    /\ UNCHANGED <<pc, normVars, metricVars, fileVars, auditVars>>

\* line 96
GeminiReturn ==
    /\ pc = "gemini_loop"
    /\ pos > Len(gemini_lines)
    /\ pc' = "gemini_returned"
    /\ UNCHANGED <<normVars, metricVars, fileVars, loaderVars, auditVars>>

NextGemini == GeminiLine \/ GeminiReturn

SpecGemini == InitGemini /\ [][NextGemini]_vars

(***************************************************************************)
(* run_audit, from the two files to the returned summary.                  *)
(***************************************************************************)
MaxReviews == 2
MaxTp == 18
MaxFn == 1
MaxFp == 8

\* review identifiers, in the order their rows appear in the files
AuditIds == <<<<"R", "2">>, <<"R", "1">>, <<"R", "3">>>>

AuditCells == {<<>>, <<"C", "o", "m", "f", "o", "r", "t">>, <<"C", "o", "m", "f", "o", "r", "t", ",", "z", "i", "p">>, <<"z", "i", "p", ",", " ", "s", "t", "y", "l", "e", " ", ",", "D", "u", "r", "a", "b", "i", "l", "i", "t", "y">>}

AuditLabels ==
    {<<>>, <<<<"C", "o", "m", "f", "o", "r", "t">>>>, <<<<"C", "o", "m", "f", "o", "r", "t">>, <<"Z", "i", "p">>>>,
     <<<<"C", "o", "l", "o", "r", "/", "A", "e", "s", "t", "h", "e", "t", "i", "c", "s">>, <<"d", "u", "r", "a", "b", "i", "l", "i", "t", "y">>, <<"Z", "i", "p">>>>}

\* what the two files say about one review: whether the Rita file has a row
\* for it and with which cell, and the aspects of its Gemini lines
ReviewProfiles ==
    {[has_row |-> h, cell |-> c, labels |-> g] :
        h \in BOOLEAN, c \in AuditCells, g \in AuditLabels} \
    {[has_row |-> FALSE, cell |-> c, labels |-> g] :
        c \in AuditCells \ {<<>>}, g \in AuditLabels}

RECURSIVE rita_file(_, _)
rita_file(profiles, i) ==
    IF i > Len(profiles) THEN <<>>
    ELSE (IF profiles[i].has_row
          THEN <<[Review_ID |-> AuditIds[i], Rita_Aspect |-> profiles[i].cell]>>
          ELSE <<>>)
         \o rita_file(profiles, i + 1)

RECURSIVE gemini_body(_, _)
gemini_body(profiles, i) ==
    IF i > Len(profiles) THEN <<>>
    ELSE [j \in 1..Len(profiles[i].labels) |->
             AuditIds[i] \o <<",">> \o profiles[i].labels[j] \o <<",", "p", "o", "s", "i", "t", "i", "v", "e", "\n">>]
         \o gemini_body(profiles, i + 1)

SmallInputs ==
    {[rita |-> rita_file(p, 1), gemini |-> <<GeminiHeader>> \o gemini_body(p, 1)] :
        p \in SeqsUpTo(ReviewProfiles, MaxReviews)}

\* the i-th of a supply of distinct two-letter labels, none of them in the
\* synonym table
PoolLabel(i) == <<LowerCase[((i - 1) \div 26) + 1], LowerCase[((i - 1) % 26) + 1]>>

\* one review with t labels in both files, f more in the Rita file only
\* and p more in the Gemini file only
CountedInput(t, f, p) ==
    [rita   |-> <<[Review_ID   |-> <<"R", "1">>,
                   Rita_Aspect |-> join(<<",">>, [i \in 1..(t + f) |-> PoolLabel(i)])]>>,
     gemini |-> <<GeminiHeader>>
                \o [i \in 1..(t + p) |->
                       <<"R", "1", ",">> \o PoolLabel(IF i <= t THEN i ELSE i + f) \o <<"\n">>]]

CountedInputs ==
    {CountedInput(t, f, p) : t \in 0..MaxTp, f \in 0..MaxFn, p \in 0..MaxFp}

AuditInputs == SmallInputs \cup CountedInputs

Init ==
    /\ pc = "start"
    /\ \E files \in AuditInputs :
           /\ rita_rows = files.rita
           /\ gemini_lines = files.gemini
    /\ LoaderIdle /\ AuditIdle
    /\ NormIdle /\ MetricIdle

\* lines 157-161
LoadRita ==
    /\ pc = "start"
    /\ rita_data' = load_rita_aspects(rita_rows)
    /\ pc' = "rita_loaded"
    /\ UNCHANGED <<gemini_data, all_reviews, results, totals, artifact,
                   summary, decision, worst>>
    /\ UNCHANGED <<normVars, metricVars, fileVars, loaderVars>>

\* lines 163-167
LoadGemini ==
    /\ pc = "rita_loaded"
    /\ gemini_data' = load_gemini_aspects(gemini_lines)
    /\ pc' = "gemini_loaded"
    /\ UNCHANGED <<rita_data, all_reviews, results, totals, artifact,
                   summary, decision, worst>>
    /\ UNCHANGED <<normVars, metricVars, fileVars, loaderVars>>

\* lines 172-180
StartMetrics ==
    /\ pc = "gemini_loaded"
    /\ results' = <<>>
    /\ totals' = ZeroTotals
    /\ all_reviews' = all_reviews_of(rita_data, gemini_data)
    /\ pc' = "loop"
    /\ UNCHANGED <<rita_data, gemini_data, artifact, summary, decision, worst>>
    /\ UNCHANGED <<normVars, metricVars, fileVars, loaderVars>>

\* lines 188-208, or the exception leaving the loop
Accumulate(review_id, rita, gemini, mt) ==
    Then(mt,
        IF mt.raised
        THEN pc' = "raised" /\ UNCHANGED <<results, totals>>
        ELSE /\ results' = Append(results, result_row(review_id, rita, gemini, mt))
             /\ totals' = add_totals(totals, mt)
             /\ pc' = pc)

\* lines 183-208
Review(review_id, rita, gemini) ==
    Accumulate(review_id, rita, gemini, calculate_metrics(rita, gemini))

\* one iteration of the loop of lines 182-208
AuditReview ==
    /\ pc = "loop"
    /\ Len(results) < Len(all_reviews)
    /\ Review(all_reviews[Len(results) + 1],
              DictGet(rita_data, all_reviews[Len(results) + 1], <<>>),
              DictGet(gemini_data, all_reviews[Len(results) + 1], <<>>))
    /\ UNCHANGED <<rita_data, gemini_data, all_reviews, artifact, summary,
                   decision, worst>>
    /\ UNCHANGED <<normVars, metricVars, fileVars, loaderVars>>

\* lines 211-216
WriteResults ==
    /\ pc = "loop"
    /\ Len(results) = Len(all_reviews)
    /\ artifact' = written(results)
    /\ pc' = "written"
    /\ UNCHANGED <<rita_data, gemini_data, all_reviews, results, totals,
                   summary, decision, worst>>
    /\ UNCHANGED <<normVars, metricVars, fileVars, loaderVars>>

\* lines 219-233, or the exception ending the run
Summarize(s) ==
    Then(s,
        IF ZeroDivisionError \in {s.macro_f1, s.micro_f1, s.micro_recall,
                                  s.micro_precision}
        THEN pc' = "raised" /\ UNCHANGED summary
        ELSE summary' = s /\ pc' = "aggregated")

\* lines 219-233
Aggregate ==
    /\ pc = "written"
    /\ Summarize(summary_of(totals, Len(results)))
    /\ UNCHANGED <<rita_data, gemini_data, all_reviews, results, totals,
                   artifact, decision, worst>>
    /\ UNCHANGED <<normVars, metricVars, fileVars, loaderVars>>

\* lines 268-278
GreenLight ==
    /\ pc = "aggregated"
    /\ green_light(summary.micro_f1)
    /\ decision' = "GREEN LIGHT"
    /\ pc' = "decided"
    /\ UNCHANGED <<rita_data, gemini_data, all_reviews, results, totals,
                   artifact, summary, worst>>
    /\ UNCHANGED <<normVars, metricVars, fileVars, loaderVars>>

\* lines 279-302
RedFlag ==
    /\ pc = "aggregated"
    /\ ~green_light(summary.micro_f1)
    /\ decision' = "RED FLAG"
    /\ worst' = worst_of(results)
    /\ pc' = "decided"
    /\ UNCHANGED <<rita_data, gemini_data, all_reviews, results, totals,
                   artifact, summary>>
    /\ UNCHANGED <<normVars, metricVars, fileVars, loaderVars>>

\* lines 304-316
Return ==
    /\ pc = "decided"
    /\ pc' = "returned"
    /\ UNCHANGED <<normVars, metricVars, fileVars, loaderVars, auditVars>>

Next ==
    \/ LoadRita
    \/ LoadGemini
    \/ StartMetrics
    \/ AuditReview
    \/ WriteResults
    \/ Aggregate
    \/ GreenLight
    \/ RedFlag
    \/ Return

Spec == Init /\ [][Next]_vars

(***************************************************************************)
(* Properties of the normalizer (SpecNormalize).                           *)
(***************************************************************************)
\* C4: normalize_aspect_name is idempotent: normalizing the result of a
\* normalization again changes nothing, for table keys in any letter case,
\* padded or not, for canonical values and for unknown strings; and every
\* canonical value of the synonym table is normalized to itself.
C4_Idempotent ==
    /\ pc = "twice" => renormalized = normalized
    /\ (pc # "raw" /\ raw_label \in CanonicalValues) => normalized = raw_label

\* a padded label in another letter case than its canonical value has been
\* normalized twice
C4_Witness ==
    /\ pc = "twice"
    /\ normalized \in CanonicalValues
    /\ strip(raw_label) # raw_label
    /\ strip(raw_label) # normalized

(***************************************************************************)
(* Properties of the calculator (SpecMetrics).                             *)
(***************************************************************************)
\* C1 as stated: for every pair of lists, empty ones included, tp + fn is
\* the number of distinct case-folded reference labels and tp + fp the
\* number of distinct case-folded candidate labels.
C1_AllPairs ==
    pc = "compared" =>
        /\ metrics.tp + metrics.fn
             = Cardinality({lower(rita_aspects[i]) : i \in 1..Len(rita_aspects)})
        /\ metrics.tp + metrics.fp
             = Cardinality({lower(gemini_aspects[i]) : i \in 1..Len(gemini_aspects)})

\* C1: when both lists are non-empty, tp + fn is the number of distinct
\* case-folded reference labels and tp + fp the number of distinct
\* case-folded candidate labels; when exactly one list is empty the count of
\* the other list is its length, duplicates and case variants included; when
\* both are empty all counts are zero.
C1_NonEmptyPairs ==
    pc = "compared" =>
        LET distinct_rita ==
                Cardinality({lower(rita_aspects[i]) : i \in 1..Len(rita_aspects)})
            distinct_gemini ==
                Cardinality({lower(gemini_aspects[i]) : i \in 1..Len(gemini_aspects)})
        IN  /\ (rita_aspects # <<>> /\ gemini_aspects # <<>>) =>
                   /\ metrics.tp + metrics.fn = distinct_rita
                   /\ metrics.tp + metrics.fp = distinct_gemini
            /\ (rita_aspects = <<>>) =>
                   /\ metrics.tp + metrics.fn = 0
                   /\ metrics.tp + metrics.fp = Len(gemini_aspects)
            /\ (gemini_aspects = <<>>) =>
                   /\ metrics.tp + metrics.fn = Len(rita_aspects)
                   /\ metrics.tp + metrics.fp = 0

\* two non-empty lists, the reference naming one label in two letter cases
C1_Witness ==
    /\ pc = "compared"
    /\ rita_aspects = <<<<"z", "i", "p">>, <<"Z", "i", "p">>>>
    /\ gemini_aspects = <<<<"Z", "i", "p">>, <<"C", "o", "m", "f", "o", "r", "t">>>>
    /\ metrics.tp = 1 /\ metrics.fn = 0 /\ metrics.fp = 1

\* C2: the degenerate-case table, in its order: both lists empty gives
\* recall = precision = f1 = 1.0 and zero counts; an empty reference with a
\* non-empty candidate gives 0.0 three times, tp = fn = 0 and
\* fp = len(candidate); a non-empty reference with an empty candidate gives
\* 0.0 three times, tp = fp = 0 and fn = len(reference); and no pair of
\* lists, degenerate or not, makes the computation divide by zero.
C2_DegenerateTable ==
    pc = "compared" =>
        /\ ~metrics.raised
        /\ (rita_aspects = <<>> /\ gemini_aspects = <<>>) =>
               /\ metrics.recall = FOne /\ metrics.precision = FOne
               /\ metrics.f1 = FOne
               /\ metrics.tp = 0 /\ metrics.fn = 0 /\ metrics.fp = 0
        /\ (rita_aspects = <<>> /\ gemini_aspects # <<>>) =>
               /\ metrics.recall = FZero /\ metrics.precision = FZero
               /\ metrics.f1 = FZero
               /\ metrics.tp = 0 /\ metrics.fn = 0
               /\ metrics.fp = Len(gemini_aspects)
        /\ (rita_aspects # <<>> /\ gemini_aspects = <<>>) =>
               /\ metrics.recall = FZero /\ metrics.precision = FZero
               /\ metrics.f1 = FZero
               /\ metrics.tp = 0 /\ metrics.fp = 0
               /\ metrics.fn = Len(rita_aspects)

\* an empty reference against a candidate that repeats a label in another
\* letter case: fp is the length of the list, not the number of labels
C2_Witness ==
    /\ pc = "compared"
    /\ rita_aspects = <<>>
    /\ gemini_aspects = <<<<"z", "i", "p">>, <<"Z", "i", "p">>>>
    /\ metrics.fp = 2

\* C3: reflexivity: a list compared with itself, be it empty, with
\* duplicates or with labels differing only in letter case, gives
\* recall = precision = f1 = 1.0 and fn = fp = 0.
C3_Reflexive ==
    (pc = "compared" /\ rita_aspects = gemini_aspects) =>
        /\ metrics.recall = FOne /\ metrics.precision = FOne
        /\ metrics.f1 = FOne
        /\ metrics.fn = 0 /\ metrics.fp = 0

\* a list with one label in two letter cases has been compared with itself
C3_Witness ==
    /\ pc = "compared"
    /\ rita_aspects = <<<<"Z", "i", "p">>, <<"z", "i", "p">>>>
    /\ gemini_aspects = rita_aspects
    /\ metrics.tp = 1

\* C10 as stated: the detail text reads "Perfect match" when the matched,
\* missed and extra groups are all empty, and otherwise starts with the
\* name of its first non-empty group.
C10_PerfectMatch ==
    pc = "compared" =>
        LET rita_set   == {lower(rita_aspects[i]) : i \in 1..Len(rita_aspects)}
            gemini_set == {lower(gemini_aspects[i]) : i \in 1..Len(gemini_aspects)}
            text       == metrics.details
        IN  IF rita_set \cap gemini_set = {} /\ rita_set \ gemini_set = {}
               /\ gemini_set \ rita_set = {}
            THEN text = <<"P", "e", "r", "f", "e", "c", "t", " ", "m", "a", "t", "c", "h">>
            ELSE \E name \in {<<"M", "a", "t", "c", "h", "e", "d", ":", " ">>, <<"M", "i", "s", "s", "e", "d", ":", " ">>, <<"E", "x", "t", "r", "a", ":", " ">>} :
                     /\ Len(text) >= Len(name)
                     /\ SubSeq(text, 1, Len(name)) = name

\* C10: the detail text reads "Both empty" when both lists are empty (the
\* one case in which the three groups are all empty), "Rita has no aspects"
\* when only the reference is empty and "Gemini found no aspects" when only
\* the candidate is empty; otherwise it lists the non-empty groups in the
\* order Matched, Missed, Extra, each as its name, a colon and its labels
\* in ascending order separated by ", ", the groups joined by " | ".  It
\* never reads "Perfect match".
C10_DetailText ==
    pc = "compared" =>
        LET text == metrics.details
            rita_set   == {lower(rita_aspects[i]) : i \in 1..Len(rita_aspects)}
            gemini_set == {lower(gemini_aspects[i]) : i \in 1..Len(gemini_aspects)}
            groups == <<rita_set \cap gemini_set, rita_set \ gemini_set,
                        gemini_set \ rita_set>>
            names  == <<<<"M", "a", "t", "c", "h", "e", "d">>, <<"M", "i", "s", "s", "e", "d">>, <<"E", "x", "t", "r", "a">>>>
            shown  == SelectSeq(<<1, 2, 3>>, LAMBDA k : groups[k] # {})
            pieces == split(text, "|")
            labels == [j \in 1..Len(pieces) |->
                          Map(strip, split(split(strip(pieces[j]), ":")[2], ","))]
        IN  /\ text # <<"P", "e", "r", "f", "e", "c", "t", " ", "m", "a", "t", "c", "h">>
            /\ (rita_aspects = <<>> /\ gemini_aspects = <<>>) =>
                   text = <<"B", "o", "t", "h", " ", "e", "m", "p", "t", "y">>
            /\ (rita_aspects = <<>> /\ gemini_aspects # <<>>) =>
                   text = <<"R", "i", "t", "a", " ", "h", "a", "s", " ", "n", "o", " ", "a", "s", "p", "e", "c", "t", "s">>
            /\ (rita_aspects # <<>> /\ gemini_aspects = <<>>) =>
                   text = <<"G", "e", "m", "i", "n", "i", " ", "f", "o", "u", "n", "d", " ", "n", "o", " ", "a", "s", "p", "e", "c", "t", "s">>
            /\ (rita_aspects # <<>> /\ gemini_aspects # <<>>) =>
                   /\ Len(pieces) = Len(shown)
                   /\ \A j \in 1..Len(pieces) :
                          /\ split(strip(pieces[j]), ":")[1] = names[shown[j]]
                          /\ Range(labels[j]) = groups[shown[j]]
                          /\ Len(labels[j]) = Cardinality(groups[shown[j]])
                          /\ \A a \in 1..(Len(labels[j]) - 1) :
                                 StrLess(labels[j][a], labels[j][a + 1])
                   /\ text = join(<<" ", "|", " ">>,
                                  [j \in 1..Len(pieces) |->
                                      names[shown[j]] \o <<":", " ">>
                                      \o join(<<",", " ">>, labels[j])])

\* two missed labels given in descending order, and one extra label
C10_Witness ==
    /\ pc = "compared"
    /\ rita_aspects = <<<<"z", "i", "p">>, <<"C", "o", "m", "f", "o", "r", "t">>>>
    /\ gemini_aspects = <<<<"D", "u", "r", "a", "b", "i", "l", "i", "t", "y">>>>
    /\ metrics.details = <<"M", "i", "s", "s", "e", "d", ":", " ", "c", "o", "m", "f", "o", "r", "t", ",", " ", "z", "i", "p", " ", "|", " ", "E", "x", "t", "r", "a", ":", " ", "d", "u", "r", "a", "b", "i", "l", "i", "t", "y">>

(***************************************************************************)
(* Properties of the loaders (SpecRita, SpecGemini).                       *)
(***************************************************************************)
\* C8: load_rita_aspects is last-write-wins: the list returned for an
\* identifier is the normalized, non-empty comma-separated pieces of the
\* last row carrying it, whatever earlier rows carried; an identifier whose
\* last row has no non-empty piece is present with an empty list; an
\* identifier with no row is absent.
C8_LastWriteWins ==
    pc = "rita_returned" =>
        /\ DOMAIN reviews = {rita_rows[i].Review_ID : i \in 1..Len(rita_rows)}
        /\ \A i \in 1..Len(rita_rows) :
               (\A j \in (i + 1)..Len(rita_rows) :
                    rita_rows[j].Review_ID # rita_rows[i].Review_ID) =>
                   reviews[rita_rows[i].Review_ID]
                     = SelectSeq(Map(normalize_aspect_name,
                                     split(rita_rows[i].Rita_Aspect, ",")),
                                 LAMBDA a : a # <<>>)

\* an identifier whose first row names aspects and whose last row has no
\* non-empty piece is returned with an empty list, next to another one
C8_Witness ==
    /\ pc = "rita_returned"
    /\ Len(rita_rows) = 3
    /\ rita_rows[1] = [Review_ID |-> <<"R", "1">>, Rita_Aspect |-> <<"z", "i", "p", ",", ",", "C", "o", "m", "f", "o", "r", "t", " ">>]
    /\ rita_rows[3] = [Review_ID |-> <<"R", "1">>, Rita_Aspect |-> <<",", ",">>]
    /\ rita_rows[2].Review_ID = <<"R", "2">>
    /\ reviews[<<"R", "1">>] = <<>>
    /\ reviews[<<"R", "2">>] # <<>>

\* C7 as stated: the list returned for an identifier is, in file order, the
\* normalized column 1 of every line after the header with at least two
\* columns and that identifier in column 0; no other line is dropped.
C7_EveryLine ==
    pc = "gemini_returned" =>
        LET body == SubSeq(gemini_lines, 2, Len(gemini_lines))
            kept == SelectSeq(body, LAMBDA ln : Len(gemini_parts(ln)) >= 2)
            ids  == {strip(gemini_parts(kept[i])[1]) : i \in 1..Len(kept)}
        IN  /\ DOMAIN reviews = ids
            /\ \A id \in ids :
                   LET own == SelectSeq(kept,
                                  LAMBDA ln : strip(gemini_parts(ln)[1]) = id)
                   IN  reviews[id]
                         = [i \in 1..Len(own) |->
                               normalize_aspect_name(strip(gemini_parts(own[i])[2]))]

\* C7: load_gemini_aspects accumulates across lines: the list returned for
\* an identifier is, in file order, the normalized column 1 of every line
\* after the header that has at least two columns, that identifier in
\* column 0 and a column 1 that is not empty after normalization; the
\* header, the lines with fewer than two columns and the lines whose
\* column 1 normalizes to the empty string contribute nothing, and an
\* identifier without a contributing line is absent.
C7_Accumulates ==
    pc = "gemini_returned" =>
        LET body == SubSeq(gemini_lines, 2, Len(gemini_lines))
            kept == SelectSeq(body,
                        LAMBDA ln :
                            /\ Len(gemini_parts(ln)) >= 2
                            /\ normalize_aspect_name(strip(gemini_parts(ln)[2])) # <<>>)
            ids  == {strip(gemini_parts(kept[i])[1]) : i \in 1..Len(kept)}
        IN  /\ DOMAIN reviews = ids
            /\ \A id \in ids :
                   LET own == SelectSeq(kept,
                                  LAMBDA ln : strip(gemini_parts(ln)[1]) = id)
                   IN  reviews[id]
                         = [i \in 1..Len(own) |->
                               normalize_aspect_name(strip(gemini_parts(own[i])[2]))]

\* three lines were read: a quoted one and a plain one for the same
\* identifier, with a line whose aspect column is empty between them
C7_Witness ==
    /\ pc = "gemini_returned"
    /\ Len(gemini_lines) = 4
    /\ gemini_lines[2] = <<"\"", "R", "1", ",", "f", "i", "t", "/", "s", "i", "z", "i", "n", "g", ",", "n", "e", "g", "a", "t", "i", "v", "e", ",", "\"", "\"", "r", "u", "n", "s", " ", "s", "m", "a", "l", "l", ",", " ", "t", "i", "g", "h", "t", "\"", "\"", "\"", "\n">>
    /\ gemini_lines[3] = <<"R", "1", ",", ",", "p", "o", "s", "i", "t", "i", "v", "e", "\n">>
    /\ gemini_lines[4] = <<"R", "1", ",", "C", "o", "m", "f", "o", "r", "t", ",", "n", "e", "g", "a", "t", "i", "v", "e", ",", "\"", "t", "h", "i", "n", "\"", "\n">>
    /\ reviews[<<"R", "1">>] = <<<<"S", "i", "z", "i", "n", "g", "/", "F", "i", "t">>, <<"C", "o", "m", "f", "o", "r", "t">>>>

(***************************************************************************)
(* Properties of run_audit (Spec).                                         *)
(***************************************************************************)
\* C9 as stated: for every pair of loaded mappings, two empty ones
\* included, the artifact is the header row followed by one row per
\* identifier of the union of the keys.
C9_AlwaysHeader ==
    pc \in {"written", "aggregated", "decided", "returned"} =>
        /\ Len(artifact) = 1 + Cardinality((DOMAIN rita_data) \cup (DOMAIN gemini_data))
        /\ artifact[1] = fieldnames

\* C9: when the union of the keys of the two mappings is not empty, the
\* artifact is the header row followed by exactly one row per identifier
\* of the union, in ascending identifier order, a source without the
\* identifier being compared as an empty list; when both mappings are
\* empty nothing is written, not even the header.
C9_Artifact ==
    pc \in {"written", "aggregated", "decided", "returned"} =>
        LET ids == (DOMAIN rita_data) \cup (DOMAIN gemini_data)
        IN  IF ids = {} THEN artifact = <<>>
            ELSE /\ Len(artifact) = 1 + Cardinality(ids)
                 /\ artifact[1] = fieldnames
                 /\ {artifact[k].Review_ID : k \in 2..Len(artifact)} = ids
                 /\ \A k \in 2..(Len(artifact) - 1) :
                        StrLess(artifact[k].Review_ID, artifact[k + 1].Review_ID)
                 /\ \A k \in 2..Len(artifact) :
                        LET row == artifact[k]
                        IN  /\ row.Review_ID \in DOMAIN rita_data =>
                                row.Rita_Count = Len(rita_data[row.Review_ID])
                            /\ row.Review_ID \in DOMAIN gemini_data =>
                                row.Gemini_Count = Len(gemini_data[row.Review_ID])
                            /\ row.Review_ID \notin DOMAIN rita_data =>
                                /\ row.Rita_Count = 0
                                /\ row.Rita_Aspects = <<"N", "O", "N", "E">>
                                /\ row.True_Positives = 0
                                /\ row.False_Negatives = 0
                                /\ row.False_Positives = row.Gemini_Count
                                /\ row.Details = <<"R", "i", "t", "a", " ", "h", "a", "s", " ", "n", "o", " ", "a", "s", "p", "e", "c", "t", "s">>
                            /\ row.Review_ID \notin DOMAIN gemini_data =>
                                /\ row.Gemini_Count = 0
                                /\ row.Gemini_Aspects = <<"N", "O", "N", "E">>
                                /\ row.True_Positives = 0
                                /\ row.False_Positives = 0
                                /\ row.False_Negatives = row.Rita_Count
                                /\ row.Details
                                     = IF row.Rita_Count = 0 THEN <<"B", "o", "t", "h", " ", "e", "m", "p", "t", "y">>
                                       ELSE <<"G", "e", "m", "i", "n", "i", " ", "f", "o", "u", "n", "d", " ", "n", "o", " ", "a", "s", "p", "e", "c", "t", "s">>

\* two identifiers were written in ascending order, the second of the Rita
\* file first; one is missing from the Gemini file, the other from the
\* Rita file
C9_Witness ==
    /\ pc = "written"
    /\ DOMAIN rita_data = {<<"R", "2">>}
    /\ DOMAIN gemini_data = {<<"R", "1">>}
    /\ Len(artifact) = 3
    /\ artifact[2].Review_ID = <<"R", "1">>
    /\ artifact[3].Review_ID = <<"R", "2">>
    /\ artifact[3].False_Negatives = 2

\* C5 as stated: the green light branch is taken exactly when the micro F1
\* of the summed counts, 2 tp / (2 tp + fn + fp), is at or above 80 percent,
\* the boundary included, and the red flag branch exactly when it is below.
C5_Threshold ==
    pc \in {"decided", "returned"} =>
        (decision = "GREEN LIGHT"
           <=> /\ summary.total_tp > 0
               /\ 100 * 2 * summary.total_tp
                    >= Threshold * (2 * summary.total_tp + summary.total_fn
                                    + summary.total_fp))

\* C6 as stated: micro F1 differs from macro F1 whenever two reviews have
\* label sets of unequal sizes.
C6_UnequalSizes ==
    LET size(d, id) ==
            IF id \in DOMAIN d
            THEN Cardinality({lower(d[id][i]) : i \in 1..Len(d[id])}) ELSE 0
    IN  (/\ pc = "returned"
         /\ \E a, b \in (DOMAIN rita_data) \cup (DOMAIN gemini_data) :
                \/ size(rita_data, a) # size(rita_data, b)
                \/ size(gemini_data, a) # size(gemini_data, b))
        => summary.micro_f1 # summary.macro_f1

\* C6: in a run over exactly two reviews, each with a non-empty label list
\* in both sources, micro F1 differs from macro F1 whenever the two reviews
\* differ in the combined size of their two label sets and in their F1
\* (2 tp / combined size).  Unequal sizes alone do not separate the two
\* values.
C6_TwoReviews ==
    (/\ pc = "returned"
     /\ Len(results) = 2
     /\ \A k \in 1..2 : results[k].Rita_Count > 0 /\ results[k].Gemini_Count > 0)
    => LET tp(k)   == results[k].True_Positives
           both(k) == 2 * results[k].True_Positives + results[k].False_Negatives
                      + results[k].False_Positives
       IN  (both(1) # both(2) /\ tp(1) * both(2) # tp(2) * both(1))
               => summary.micro_f1 # summary.macro_f1

\* a run over a review with F1 = 2/3 on three labels and a perfect match on
\* two labels has returned
C6_Witness ==
    /\ pc = "returned"
    /\ Len(results) = 2
    /\ results[1].True_Positives = 1 /\ results[1].False_Negatives = 0
    /\ results[1].False_Positives = 0
    /\ results[2].True_Positives = 1 /\ results[2].False_Negatives = 1
    /\ results[2].False_Positives = 0
    /\ results[1].Gemini_Count = 1 /\ results[2].Gemini_Count = 1
    /\ summary.micro_f1 # summary.macro_f1
====
